---- MODULE Spec2Model ----
(***************************************************************************)
(* Model of the QM adapter layer: the DFTB+/SSR calculator                 *)
(* (src/src/bo/dftbplus/ssr.py), the QChem base class                      *)
(* (src/src/bo/qchem/qchem.py) and the Turbomole base class                *)
(* (src/src/qm/turbomole/turbomole.py).                                    *)
(*                                                                         *)
(* Python values that the code compares across types (version numbers)     *)
(* are tagged with their type, so that 6.4 and "6.4" differ as they do in  *)
(* Python.  Exceptions are modelled by the name of the exception raised;   *)
(* "none" means the call returned normally.                                *)
(***************************************************************************)
EXTENDS Integers, Sequences, FiniteSets, TLC

VARIABLES
    ssr,        \* the SSR object's attributes (self.*)
    molecule,   \* the caller-owned molecule: nst, l_nacme, energy, force, nac
    call,       \* arguments of the get_bo call in progress
    pc,         \* position inside get_bo
    err,        \* exception that ended the get_bo call, "none" otherwise
    files,      \* working directory: dftb_in.hsd, log, exit status, QMlog copy
    environ,    \* os.environ (the variables this code sets)
    qchem,      \* attributes left by the most recent QChem.__init__
    turbomole   \* attributes left by the most recent Turbomole.__init__

vars == <<ssr, molecule, call, pc, err, files, environ, qchem, turbomole>>

ssrVars == <<ssr, molecule, call, pc, err, files>>
calcVars == <<qchem, turbomole>>

----------------------------------------------------------------------------
(* Bounds *)

MaxNst == 3      \* largest number of electronic states of the molecule
NAt == 1         \* number of atoms of the molecule
MaxIstep == 0    \* largest MD step index handed to get_bo
MaxSeed == 1     \* largest seed of the numbers printed in a log
MaxThreads == 3  \* largest nthreads handed to a constructor

----------------------------------------------------------------------------
(* Python values *)

PyFloat(lit) == [type |-> "float", val |-> lit]
PyStr(lit) == [type |-> "str", val |-> lit]

\* f"{n}" for an integer n: the decimal string of n
FmtInt(n) == [type |-> "str", val |-> ToString(n)]

Absent == [type |-> "absent", val |-> ""]

\* os.path.join(a, b) for a relative b
PathJoin(a, b) == <<a, b>>

----------------------------------------------------------------------------
(* nat x 3 arrays *)

Atoms == 1..NAt
Comps == 1..3

Zeros == [a \in Atoms |-> [c \in Comps |-> 0]]

Negate(m) == [a \in Atoms |-> [c \in Comps |-> 0 - m[a][c]]]

\* np.array(groups).astype(float).reshape(nat, 3, order='C')
Reshape(flat) == [a \in Atoms |-> [c \in Comps |-> flat[3 * (a - 1) + c]]]

States(nst) == 0..(nst - 1)

NumPairs(nst) == (nst * (nst - 1)) \div 2

----------------------------------------------------------------------------
(* The log file written by the external program.                           *)
(*                                                                         *)
(* A log is described by what the patterns of extract_BO find in it:       *)
(*   nE      number of 'SSR state' energy lines                            *)
(*   nSpin   number of energy lines that follow the 'Spin' header          *)
(*   missSt  label of the ' k st state (SSR)' gradient block that is       *)
(*           absent (0: the blocks 1..MaxNst are all present)              *)
(*   missPl  label of the ' k state (...)' gradient block that is absent   *)
(*   nNac    number of 'non-adiabatic coupling' blocks                     *)
(*   seed    selects the numbers printed                                   *)
(***************************************************************************)

CompleteLog(sd) ==
    [nE |-> MaxNst, nSpin |-> MaxNst, missSt |-> 0, missPl |-> 0,
     nNac |-> NumPairs(MaxNst), seed |-> sd]

\* A log in which nothing matches (the program died before printing results)
EmptyLog(sd) ==
    [nE |-> 0, nSpin |-> 0, missSt |-> 0, missPl |-> 0, nNac |-> 0, seed |-> sd]

\* The logs considered: complete ones, ones with a single section damaged,
\* and ones in which nothing matches.
LogsOfSeed(sd) ==
    LET full == CompleteLog(sd) IN
    {full, EmptyLog(sd)}
    \cup {[full EXCEPT !.nE = n] : n \in 0..(MaxNst - 1)}
    \cup {[full EXCEPT !.nSpin = n] : n \in 0..(MaxNst - 1)}
    \cup {[full EXCEPT !.missSt = k] : k \in 1..MaxNst}
    \cup {[full EXCEPT !.missPl = k] : k \in 1..MaxNst}
    \cup {[full EXCEPT !.nNac = n] : n \in 0..(NumPairs(MaxNst) - 1)}

Logs == UNION {LogsOfSeed(sd) : sd \in 0..MaxSeed}

\* re.findall('SSR state\s+\S+\s+([-]\S+)', log_out) as floats
FindSSREnergy(l) == [k \in 1..l.nE |-> 0 - (10 * (l.seed + 1) + k)]

\* re.findall('Spin' + '\n\s+\w+\s+([-]\S+)(?:\s+\S+){3}' * nst, log_out):
\* one tuple of nst energies when the 'Spin' header is followed by at least
\* nst energy lines, no match otherwise
FindSpinEnergy(l, nst) ==
    IF l.nSpin >= nst
    THEN << [k \in 1..nst |-> 0 - (50 * (l.seed + 1) + k)] >>
    ELSE << >>

\* re.findall(f' {lab} st state \(SSR\)' + <3 numbers> * nat, log_out)
FindSSRGradient(l, lab) ==
    IF lab \in 1..MaxNst /\ lab # l.missSt
    THEN << [i \in 1..(3 * NAt) |-> i * (lab + l.seed) - 4] >>
    ELSE << >>

\* re.findall(f' {lab} state \(\w+[-]*\w+\)' + <3 numbers> * nat, log_out)
FindGradient(l, lab) ==
    IF lab \in 1..MaxNst /\ lab # l.missPl
    THEN << [i \in 1..(3 * NAt) |-> 7 - i * (lab + l.seed)] >>
    ELSE << >>

\* re.findall('non-adiabatic coupling' + <3 numbers> * nat, log_out)
FindNAC(l) ==
    [k \in 1..l.nNac |-> [i \in 1..(3 * NAt) |-> k * (i + l.seed) - 3]]

----------------------------------------------------------------------------
(* SSR.__init__ *)

Bools == {TRUE, FALSE}
LcMethods == {"MM", "NB", "XX"}
SsrVersions == {PyFloat("19.1"), PyFloat("20.1")}

\* The constructor stores its arguments; self.nac does not exist before
\* the first get_input and calc_coupling is set by the dynamics driver.
SSRInit(scc, lcdftb, lc_method, ssr22, use_ssr_state, guess, version, coupling, nst) ==
    [scc |-> scc, lcdftb |-> lcdftb, lc_method |-> lc_method, ssr22 |-> ssr22,
     use_ssr_state |-> use_ssr_state, guess |-> guess, version |-> version,
     nthreads |-> 1, calc_coupling |-> coupling, nac |-> "unset",
     re_calc |-> (nst > 1 /\ use_ssr_state = 0)]

\* molecule.l_nacme as set by SSR.__init__
LNacme(use_ssr_state) == IF use_ssr_state = 1 THEN FALSE ELSE TRUE

MoleculeInit(nst, use_ssr_state) ==
    [nst |-> nst, l_nacme |-> LNacme(use_ssr_state),
     energy |-> [i \in States(nst) |-> 0],
     force |-> [i \in States(nst) |-> Zeros],
     nac |-> [i \in States(nst) |-> [j \in States(nst) |-> Zeros]]]

\* A molecule as earlier steps (or the caller) may have left it: every
\* entry holds some number, the NAC array not antisymmetric
MoleculeEarlier(nst, use_ssr_state) ==
    [nst |-> nst, l_nacme |-> LNacme(use_ssr_state),
     energy |-> [i \in States(nst) |-> 100 + i],
     force |-> [i \in States(nst) |-> [a \in Atoms |-> [c \in Comps |-> 20 + i + c]]],
     nac |-> [i \in States(nst) |-> [j \in States(nst) |->
                [a \in Atoms |-> [c \in Comps |-> 30 + 3 * i + j + c]]]]]

----------------------------------------------------------------------------
(* SSR.get_input *)

\* Hamiltonian block: the LC screening keyword, "" when the block is not
\* rendered, "raise" when the method is not one of the two implemented
LcScreening(s) ==
    IF s.scc /\ s.lcdftb
    THEN IF s.lc_method = "MM" THEN "MatrixBased"
         ELSE IF s.lc_method = "NB" THEN "NeighbourBased"
         ELSE "raise"
    ELSE ""

EnergyFunctional(nst) == IF nst = 1 THEN 1 ELSE 2

\* Mutant: the two-state case falls through to the last branch
EnergyLevelNoTwo(nst) == IF nst = 1 THEN 1 ELSE 2

EnergyLevel(nst) == IF nst = 1 THEN 1 ELSE IF nst = 2 THEN 1 ELSE 2

\* self.nac
NacOption(nst, use_ssr_state, calc_coupling) ==
    IF nst = 1 \/ use_ssr_state = 0 THEN "No"
    ELSE IF calc_coupling THEN "Yes" ELSE "No"

ParserVersion(version) == IF version = PyFloat("19.1") THEN 7 ELSE 0

NoInput ==
    [written |-> FALSE, Screening |-> "", EnergyFunctional |-> 0, EnergyLevel |-> 0,
     useSSRstate |-> 0, TargetState |-> 0, InitialGuess |-> 0,
     NonAdiabaticCoupling |-> "", ParserVersion |-> 0]

\* Mutant: the external-guess check is missing
GetInputErrorNoGuess(s) ==
    IF LcScreening(s) = "raise" THEN "ValueError: Other LC screening Not Compatible with SSR"
    ELSE IF ~s.ssr22 THEN "ValueError: Other active spaces Not Implemented"
    ELSE IF s.version # PyFloat("19.1") THEN "ValueError: Other Versions Not Implemented"
    ELSE "none"

\* The exception get_input raises for SSR object s, "none" when it
\* renders the document
GetInputError(s) ==
    IF LcScreening(s) = "raise" THEN "ValueError: Other LC screening Not Compatible with SSR"
    ELSE IF ~s.ssr22 THEN "ValueError: Other active spaces Not Implemented"
    ELSE IF s.guess = 2 THEN "ValueError: read external guess not implemented"
    ELSE IF s.version # PyFloat("19.1") THEN "ValueError: Other Versions Not Implemented"
    ELSE "none"

\* Whether get_input reaches the assignment of self.nac (lines 247-258)
\* before it returns or raises
ReachesNac(s) == LcScreening(s) # "raise" /\ s.ssr22

RenderInput(s, nst, bo0) ==
    [written |-> TRUE, Screening |-> LcScreening(s),
     EnergyFunctional |-> EnergyFunctional(nst), EnergyLevel |-> EnergyLevel(nst),
     useSSRstate |-> s.use_ssr_state, TargetState |-> bo0 + 1,
     InitialGuess |-> s.guess,
     NonAdiabaticCoupling |-> NacOption(nst, s.use_ssr_state, s.calc_coupling),
     ParserVersion |-> ParserVersion(s.version)]

GetInput ==
    /\ pc = "get_input"
    /\ LET e == GetInputError(ssr) IN
        /\ ssr' = IF ReachesNac(ssr)
                  THEN [ssr EXCEPT !.nac = NacOption(molecule.nst, ssr.use_ssr_state,
                                                     ssr.calc_coupling)]
                  ELSE ssr
        /\ files' = IF e = "none"
                    THEN [files EXCEPT !.dftb_in = RenderInput(ssr, molecule.nst, call.bo0)]
                    ELSE files
        /\ err' = e
        /\ pc' = IF e = "none" THEN "run_QM" ELSE "failed"
    /\ UNCHANGED <<molecule, call, environ, calcVars>>

----------------------------------------------------------------------------
(* SSR.run_QM *)

\* os.system returns the exit status; run_QM does not look at it
ExitStatuses == {"zero", "nonzero", "crashed"}

QMlogName(istep, bo0) == <<"log", istep + 1, bo0>>

NoCopy == [made |-> FALSE, name |-> <<"log", 0, 0>>, log |-> EmptyLog(0)]

RunQM ==
    /\ pc = "run_QM"
    /\ \E status \in ExitStatuses, l \in Logs :
        /\ environ' = [environ EXCEPT !["OMP_NUM_THREADS"] = FmtInt(ssr.nthreads)]
        /\ files' = [files EXCEPT
                        !.log = l,
                        !.exit = status,
                        !.runs = @ + 1,
                        !.copy = IF files.qmlog_dir
                                 THEN [made |-> TRUE,
                                       name |-> QMlogName(call.istep, call.bo0),
                                       log |-> l]
                                 ELSE @]
    /\ pc' = "extract_BO"
    /\ UNCHANGED <<ssr, molecule, call, err, calcVars>>

----------------------------------------------------------------------------
(* SSR.extract_BO *)

\* The list `energy` of lines 355-370, "IndexError" raised by energy[0] of
\* line 369 when the SA-REKS pattern has no match
EnergyList(s, nst, l) ==
    IF nst = 1
    THEN LET m == FindSpinEnergy(l, nst) IN
         [raised |-> FALSE, list |-> [k \in 1..Len(m) |-> m[k][1]]]
    ELSE IF s.use_ssr_state = 1
    THEN [raised |-> FALSE, list |-> FindSSREnergy(l)]
    ELSE LET m == FindSpinEnergy(l, nst) IN
         IF Len(m) = 0
         THEN [raised |-> TRUE, list |-> << >>]
         ELSE [raised |-> FALSE, list |-> m[1]]

\* Mutant: a missing energy is left at zero instead of raising
ExtractEnergyZeroFill(mol, s, l, cfo) ==
    IF cfo THEN [mol |-> mol, err |-> "none"]
    ELSE LET e == EnergyList(s, mol.nst, l)
             n == Len(e.list)
         IN [mol |-> [mol EXCEPT !.energy =
                        [i \in States(mol.nst) |->
                            IF ~e.raised /\ i < n THEN e.list[i + 1] ELSE 0]],
             err |-> "none"]

\* Lines 350-372: energies are reset, then assigned state by state until
\* energy[ist] runs off the list
ExtractEnergy(mol, s, l, cfo) ==
    IF cfo THEN [mol |-> mol, err |-> "none"]
    ELSE LET e == EnergyList(s, mol.nst, l)
             n == Len(e.list)
         IN [mol |-> [mol EXCEPT !.energy =
                        [i \in States(mol.nst) |->
                            IF ~e.raised /\ i < n THEN e.list[i + 1] ELSE 0]],
             err |-> IF e.raised \/ n < mol.nst THEN "IndexError" ELSE "none"]

\* The first state whose ' k st state (SSR)' block is missing, nst if none
FirstMissing(l, nst) ==
    IF \E i \in States(nst) : Len(FindSSRGradient(l, i + 1)) = 0
    THEN CHOOSE i \in States(nst) :
            /\ Len(FindSSRGradient(l, i + 1)) = 0
            /\ \A j \in States(nst) : j < i => Len(FindSSRGradient(l, j + 1)) > 0
    ELSE nst

\* Mutant: the forces are not reset to zero before they are read
ExtractForceNoReset(mol, s, l, bo0, cfo) ==
    IF s.nac = "Yes"
    THEN LET m == FirstMissing(l, mol.nst) IN
         [mol |-> [mol EXCEPT !.force =
                    [i \in States(mol.nst) |->
                        IF i < m THEN Negate(Reshape(FindSSRGradient(l, i + 1)[1]))
                        ELSE mol.force[i]]],
          err |-> IF m < mol.nst THEN "IndexError" ELSE "none"]
    ELSE LET f == FindGradient(l, bo0 + 1) IN
         IF Len(f) = 0
         THEN [mol |-> mol, err |-> "IndexError"]
         ELSE [mol |-> [mol EXCEPT !.force[bo0] = Negate(Reshape(f[1]))],
               err |-> "none"]

\* Mutant: the forces are reset to zero even when calc_force_only is true
ExtractForceAlwaysReset(mol, s, l, bo0, cfo) ==
    LET base == [i \in States(mol.nst) |-> Zeros] IN
    IF s.nac = "Yes"
    THEN LET m == FirstMissing(l, mol.nst) IN
         [mol |-> [mol EXCEPT !.force =
                    [i \in States(mol.nst) |->
                        IF i < m THEN Negate(Reshape(FindSSRGradient(l, i + 1)[1]))
                        ELSE base[i]]],
          err |-> IF m < mol.nst THEN "IndexError" ELSE "none"]
    ELSE LET f == FindGradient(l, bo0 + 1) IN
         IF Len(f) = 0
         THEN [mol |-> [mol EXCEPT !.force = base], err |-> "IndexError"]
         ELSE [mol |-> [mol EXCEPT !.force =
                        [base EXCEPT ![bo0] = Negate(Reshape(f[1]))]],
               err |-> "none"]

\* Lines 374-396
ExtractForce(mol, s, l, bo0, cfo) ==
    LET base == IF cfo THEN mol.force ELSE [i \in States(mol.nst) |-> Zeros] IN
    IF s.nac = "Yes"
    THEN LET m == FirstMissing(l, mol.nst) IN
         [mol |-> [mol EXCEPT !.force =
                    [i \in States(mol.nst) |->
                        IF i < m THEN Negate(Reshape(FindSSRGradient(l, i + 1)[1]))
                        ELSE base[i]]],
          err |-> IF m < mol.nst THEN "IndexError" ELSE "none"]
    ELSE LET f == FindGradient(l, bo0 + 1) IN
         IF Len(f) = 0
         THEN [mol |-> [mol EXCEPT !.force = base], err |-> "IndexError"]
         ELSE [mol |-> [mol EXCEPT !.force =
                        [base EXCEPT ![bo0] = Negate(Reshape(f[1]))]],
               err |-> "none"]

\* Mutant: kst is never advanced, every pair receives the first block
RECURSIVE NacLoopStuck(_, _, _, _, _)
NacLoopStuck(nac, l, nst, p, kst) ==
    IF p >= nst * nst THEN [nac |-> nac, err |-> "none"]
    ELSE LET ist == p \div nst
             jst == p % nst
             found == FindNAC(l)
         IN IF ist = jst
            THEN NacLoopStuck([nac EXCEPT ![ist][jst] = Zeros], l, nst, p + 1, kst)
            ELSE IF ist < jst
            THEN IF kst + 1 > Len(found)
                 THEN [nac |-> nac, err |-> "IndexError"]
                 ELSE NacLoopStuck([nac EXCEPT ![ist][jst] = Reshape(found[kst + 1])],
                                   l, nst, p + 1, kst)
            ELSE NacLoopStuck([nac EXCEPT ![ist][jst] = Negate(nac[jst][ist])],
                              l, nst, p + 1, kst)

\* Lines 400-414: the double loop over (ist, jst), visited in row-major
\* order as position p = ist * nst + jst, with the running block index kst
RECURSIVE NacLoop(_, _, _, _, _)
NacLoop(nac, l, nst, p, kst) ==
    IF p >= nst * nst THEN [nac |-> nac, err |-> "none"]
    ELSE LET ist == p \div nst
             jst == p % nst
             found == FindNAC(l)
         IN IF ist = jst
            THEN NacLoop([nac EXCEPT ![ist][jst] = Zeros], l, nst, p + 1, kst)
            ELSE IF ist < jst
            THEN IF kst + 1 > Len(found)
                 THEN [nac |-> nac, err |-> "IndexError"]
                 ELSE NacLoop([nac EXCEPT ![ist][jst] = Reshape(found[kst + 1])],
                              l, nst, p + 1, kst + 1)
            ELSE NacLoop([nac EXCEPT ![ist][jst] = Negate(nac[jst][ist])],
                         l, nst, p + 1, kst)

\* Lines 398-414
ExtractNac(mol, s, l, cfo) ==
    IF ~cfo /\ s.nac = "Yes"
    THEN LET r == NacLoop(mol.nac, l, mol.nst, 0, 0) IN
         [mol |-> [mol EXCEPT !.nac = r.nac], err |-> r.err]
    ELSE [mol |-> mol, err |-> "none"]

\* extract_BO as a whole: the three sections in order, stopping at the
\* first exception
ExtractBOResult(mol, s, l, bo0, cfo) ==
    LET e == ExtractEnergy(mol, s, l, cfo) IN
    IF e.err # "none" THEN e
    ELSE LET f == ExtractForce(e.mol, s, l, bo0, cfo) IN
         IF f.err # "none" THEN f
         ELSE ExtractNac(f.mol, s, l, cfo)

ExtractBO ==
    /\ pc = "extract_BO"
    /\ LET r == ExtractBOResult(molecule, ssr, files.log, call.bo0, call.calc_force_only) IN
        /\ molecule' = r.mol
        /\ err' = r.err
        /\ pc' = IF r.err = "none" THEN "done" ELSE "failed"
    /\ UNCHANGED <<ssr, call, files, environ, calcVars>>

----------------------------------------------------------------------------
(* SSR.get_bo *)

NoCall == [istep |-> 0, bo0 |-> 0, calc_force_only |-> FALSE, before |-> MoleculeInit(1, 1)]

\* The driver calls get_bo(molecule, base_dir, istep, bo_list, calc_force_only);
\* `before` remembers the molecule as it was handed in.
GetBo ==
    /\ pc = "idle"
    /\ \E istep \in 0..MaxIstep, bo0 \in States(molecule.nst), cfo \in Bools :
        call' = [istep |-> istep, bo0 |-> bo0, calc_force_only |-> cfo,
                 before |-> molecule]
    /\ files' = [files EXCEPT !.runs = 0, !.copy = NoCopy]
    /\ pc' = "get_input"
    /\ err' = "none"
    /\ UNCHANGED <<ssr, molecule, environ, calcVars>>

----------------------------------------------------------------------------
(* QChem.__init__ *)

QChemVersions == {PyFloat("5.2"), PyFloat("5.1"), PyStr("5.2")}

\* Line 27 builds its message with call_name(), a name qchem.py never
\* imports (line 2 imports BO_calculator only): evaluating the f-string
\* raises NameError before ValueError is constructed.
QChemRaise == "NameError: name 'call_name' is not defined"

QChemInitError(version) ==
    IF version # PyFloat("5.2") THEN QChemRaise ELSE "none"

NoQChem == [built |-> FALSE, nthreads |-> 0, version |-> Absent, err |-> "none"]

QChemNew ==
    /\ \E nthreads \in 1..MaxThreads, version \in QChemVersions :
        qchem' = [built |-> TRUE, nthreads |-> nthreads, version |-> version,
                  err |-> QChemInitError(version)]
    /\ UNCHANGED <<ssrVars, environ, turbomole>>

----------------------------------------------------------------------------
(* Turbomole.__init__ *)

TurbomoleVersions == {PyStr("6.4"), PyStr("7.0"), PyFloat("6.4")}
QmPaths == {"/opt/turbomole", "/usr/local/turbomole"}

\* Mutant: the version is compared by value, its type is not looked at
TurbomoleInitErrorByValue(version) ==
    IF version.val # "6.4"
    THEN "ValueError: Other versions not implemented!"
    ELSE "none"

\* Lines 38-46
TurbomoleInitError(version) ==
    IF version.type = "str"
    THEN IF version # PyStr("6.4")
         THEN "ValueError: Other versions not implemented!"
         ELSE "none"
    ELSE "TypeError: Type of version must be string!"

\* Lines 31-36: self.qm_bin_path
QmBinPath(qm_path, nthreads) ==
    IF nthreads = 1
    THEN PathJoin(qm_path, "bin/em64t-unknown-linux-gnu/")
    ELSE PathJoin(qm_path, "bin/em64t-unknown-linux-gnu_smp/")

\* Mutant: a serial instance removes the parallel variables
TurbomoleEnvironScoped(env, qm_path, nthreads) ==
    IF nthreads = 1
    THEN [env EXCEPT !["TURBODIR"] = PyStr(qm_path),
                     !["PARA_ARCH"] = Absent,
                     !["PARNODES"] = Absent]
    ELSE [env EXCEPT !["TURBODIR"] = PyStr(qm_path),
                     !["PARA_ARCH"] = PyStr("SMP"),
                     !["PARNODES"] = FmtInt(nthreads)]

\* Lines 29-36: os.environ after the constructor's assignments
TurbomoleEnviron(env, qm_path, nthreads) ==
    IF nthreads = 1
    THEN [env EXCEPT !["TURBODIR"] = PyStr(qm_path)]
    ELSE [env EXCEPT !["TURBODIR"] = PyStr(qm_path),
                     !["PARA_ARCH"] = PyStr("SMP"),
                     !["PARNODES"] = FmtInt(nthreads)]

NoTurbomole ==
    [built |-> FALSE, nthreads |-> 0, version |-> Absent, qm_path |-> "",
     qm_bin_path |-> PathJoin("", ""), err |-> "none"]

TurbomoleNew ==
    /\ \E qm_path \in QmPaths, nthreads \in 1..MaxThreads, version \in TurbomoleVersions :
        /\ turbomole' = [built |-> TRUE, nthreads |-> nthreads, version |-> version,
                         qm_path |-> qm_path,
                         qm_bin_path |-> QmBinPath(qm_path, nthreads),
                         err |-> TurbomoleInitError(version)]
        /\ environ' = TurbomoleEnviron(environ, qm_path, nthreads)
    /\ UNCHANGED <<ssrVars, qchem>>

----------------------------------------------------------------------------
(* Specifications *)

EnvNames == {"OMP_NUM_THREADS", "TURBODIR", "PARA_ARCH", "PARNODES"}

EnvInit == [n \in EnvNames |-> Absent]

FilesInit(qmlog_dir) ==
    [dftb_in |-> NoInput, log |-> EmptyLog(0), exit |-> "zero", runs |-> 0,
     copy |-> NoCopy, qmlog_dir |-> qmlog_dir]

\* An SSR calculator constructed for a molecule of the driver, about to
\* serve one get_bo call.  The molecule holds what earlier steps left in
\* it: nothing yet, or arbitrary earlier results.
InitWith(sccs, lcdftbs, lc_methods, earlier, dirs) ==
    /\ \E scc \in sccs, lcdftb \in lcdftbs, lc_method \in lc_methods, ssr22 \in Bools,
          use_ssr_state \in 0..2, guess \in 1..2, version \in SsrVersions,
          coupling \in Bools, nst \in 1..MaxNst, stale \in earlier :
        /\ ssr = SSRInit(scc, lcdftb, lc_method, ssr22, use_ssr_state, guess,
                         version, coupling, nst)
        /\ molecule = IF stale THEN MoleculeEarlier(nst, use_ssr_state)
                      ELSE MoleculeInit(nst, use_ssr_state)
        /\ \E d \in dirs : files = FilesInit(d)
    /\ call = NoCall
    /\ pc = "idle"
    /\ err = "none"
    /\ environ = EnvInit
    /\ qchem = NoQChem
    /\ turbomole = NoTurbomole

\* The whole get_bo pipeline, with the Hamiltonian options at the
\* constructor's defaults (scc=True, lcdftb=True, lc_method="NB")
Init == InitWith({TRUE}, {TRUE}, {"NB"}, Bools, Bools)

Next == GetBo \/ GetInput \/ RunQM \/ ExtractBO

Spec == Init /\ [][Next]_vars

\* Input rendering alone, over every combination of the options
InitInput == InitWith(Bools, Bools, LcMethods, {FALSE}, {FALSE})

NextInput == GetBo \/ GetInput

SpecInput == InitInput /\ [][NextInput]_vars

\* A driver process that constructs QChem and Turbomole calculators
InitCalc ==
    /\ ssr = SSRInit(TRUE, TRUE, "NB", TRUE, 1, 1, PyFloat("19.1"), FALSE, 1)
    /\ molecule = MoleculeInit(1, 1)
    /\ call = NoCall
    /\ pc = "idle"
    /\ err = "none"
    /\ files = FilesInit(FALSE)
    /\ environ = EnvInit
    /\ qchem = NoQChem
    /\ turbomole = NoTurbomole

NextCalc == QChemNew \/ TurbomoleNew

SpecCalc == InitCalc /\ [][NextCalc]_vars

----------------------------------------------------------------------------
(* Properties of SSR.get_input, checked under SpecInput *)

Rendered == files.dftb_in.written

\* get_input has returned or raised in the current get_bo call
InputDone == pc \in {"run_QM", "failed"}

ValueErrors ==
    {"ValueError: Other LC screening Not Compatible with SSR",
     "ValueError: Other active spaces Not Implemented",
     "ValueError: read external guess not implemented",
     "ValueError: Other Versions Not Implemented"}

\* C1: whenever get_input has rendered dftb_in.hsd, the pair
\* (EnergyFunctional, EnergyLevel) in it is (1,1) for nst = 1, (2,1) for
\* nst = 2 and (2,2) for every nst >= 3, whatever use_ssr_state and the
\* other options and arguments are.
C1_EnergyTable ==
    Rendered =>
        LET pair == <<files.dftb_in.EnergyFunctional, files.dftb_in.EnergyLevel>> IN
        /\ molecule.nst = 1 => pair = <<1, 1>>
        /\ molecule.nst = 2 => pair = <<2, 1>>
        /\ molecule.nst >= 3 => pair = <<2, 2>>

\* C1 witness: a three-state SA-REKS request (use_ssr_state = 0) rendered
\* with (2,2)
C1_Witness ==
    /\ Rendered
    /\ molecule.nst = 3
    /\ ssr.use_ssr_state = 0
    /\ files.dftb_in.EnergyFunctional = 2
    /\ files.dftb_in.EnergyLevel = 2

\* C5 as stated: once get_input has run, each of the four conditions alone
\* (lc_method other than "MM"/"NB", version other than 19.1, ssr22 false,
\* guess = 2) has made it raise ValueError.
C5_Original ==
    InputDone =>
        ((\/ ssr.lc_method \notin {"MM", "NB"}
          \/ ssr.version # PyFloat("19.1")
          \/ ~ssr.ssr22
          \/ ssr.guess = 2)
         => err \in ValueErrors)

\* C5 amended: the lc_method condition counts only when the LC block is
\* rendered (scc and lcdftb both true); with that, each condition alone
\* makes get_input raise ValueError.
C5_ConfigErrors ==
    InputDone =>
        ((\/ (ssr.scc /\ ssr.lcdftb /\ ssr.lc_method \notin {"MM", "NB"})
          \/ ssr.version # PyFloat("19.1")
          \/ ~ssr.ssr22
          \/ ssr.guess = 2)
         => (err \in ValueErrors /\ pc = "failed" /\ ~Rendered))

\* C5 witness: guess = 2 alone (every other option acceptable) has raised
C5_Witness ==
    /\ pc = "failed"
    /\ ssr.guess = 2
    /\ ssr.ssr22
    /\ ssr.version = PyFloat("19.1")
    /\ ssr.lc_method = "MM"
    /\ ssr.scc /\ ssr.lcdftb
    /\ err = "ValueError: read external guess not implemented"

\* C6 as stated: the rendered NonAdiabaticCoupling is Yes exactly when
\* nst # 1, use_ssr_state = 1 and calc_coupling holds, and No otherwise.
C6_Original ==
    Rendered =>
        /\ files.dftb_in.NonAdiabaticCoupling \in {"Yes", "No"}
        /\ files.dftb_in.NonAdiabaticCoupling = "Yes"
            <=> (molecule.nst # 1 /\ ssr.use_ssr_state = 1 /\ ssr.calc_coupling)

----------------------------------------------------------------------------
(* Properties of the get_bo pipeline, checked under Spec *)

\* extract_BO has returned normally in the current get_bo call
Extracted == pc = "done"

\* extract_BO has run (returned or raised) in the current get_bo call
ExtractRan == files.runs > 0 /\ pc \in {"done", "failed"}

CouplingOn == ssr.nac = "Yes"

\* Number of pairs (a, b), a < b, that come before (i, j) in lexicographic
\* order: the position of (i, j) counted from 0
PairIndex(i, j, nst) ==
    Cardinality({q \in States(nst) \X States(nst) :
                    q[1] < q[2] /\ (q[1] < i \/ (q[1] = i /\ q[2] < j))})

\* Component (a, c) of the k-th (from 0) 'non-adiabatic coupling' block
NacBlockEntry(l, k, a, c) == FindNAC(l)[k + 1][3 * (a - 1) + c]

\* C2: after extract_BO completes with coupling enabled and
\* calc_force_only false, nac[i,j] = -nac[j,i] for i # j, nac[i,i] = 0, and
\* nac[i,j] for i < j is the block of the log at the lexicographic position
\* of (i,j); the log holds at least nst*(nst-1)/2 blocks.
C2_NacAntisymmetric ==
    (Extracted /\ CouplingOn /\ ~call.calc_force_only) =>
        /\ files.log.nNac >= NumPairs(molecule.nst)
        /\ \A i \in States(molecule.nst), j \in States(molecule.nst), a \in Atoms, c \in Comps :
            /\ i = j => molecule.nac[i][j][a][c] = 0
            /\ i # j => molecule.nac[i][j][a][c] = 0 - molecule.nac[j][i][a][c]
            /\ i < j => molecule.nac[i][j][a][c] =
                            NacBlockEntry(files.log, PairIndex(i, j, molecule.nst), a, c)

\* C2 witness: a three-state extraction with coupling, over a molecule whose
\* NAC array held earlier, non-antisymmetric numbers
C2_Witness ==
    /\ Extracted /\ CouplingOn /\ ~call.calc_force_only
    /\ molecule.nst = 3
    /\ call.before.nac[1][0] # Negate(call.before.nac[0][1])
    /\ molecule.nac[1][2] # Zeros
    /\ molecule.nac[2][1] = Negate(molecule.nac[1][2])

\* C3 as stated: when the external program exits with a nonzero status or
\* crashes, get_bo fails: the log is not copied to QMlog, extract_BO does
\* not run on it (get_bo never gets past run_QM), and nothing is retried.
C3_Original ==
    (files.runs > 0 /\ files.exit # "zero") =>
        /\ ~files.copy.made
        /\ pc = "failed"
        /\ err # "none"
        /\ files.runs = 1

\* The patterns extract_BO looks for in log l for this call
LacksEnergy(l) ==
    /\ ~call.calc_force_only
    /\ IF molecule.nst > 1 /\ ssr.use_ssr_state = 1
       THEN l.nE < molecule.nst
       ELSE l.nSpin < molecule.nst

LacksForce(l) ==
    IF CouplingOn
    THEN l.missSt \in 1..molecule.nst
    ELSE l.missPl = call.bo0 + 1

LacksNac(l) ==
    /\ ~call.calc_force_only
    /\ CouplingOn
    /\ l.nNac < NumPairs(molecule.nst)

\* C4: when the log lacks an energy value, a force block or a NAC block
\* that extract_BO expects, extract_BO raises (IndexError); it does not
\* complete normally.
C4_MissingRaises ==
    (ExtractRan /\ (LacksEnergy(files.log) \/ LacksForce(files.log) \/ LacksNac(files.log)))
        => (pc = "failed" /\ err = "IndexError")

\* C4 witness: three states with coupling, a log one NAC block short, and
\* extract_BO has raised
C4_Witness ==
    /\ ExtractRan
    /\ molecule.nst = 3
    /\ LacksNac(files.log) /\ ~LacksEnergy(files.log) /\ ~LacksForce(files.log)
    /\ files.log.nNac = 2
    /\ pc = "failed"
    /\ err = "IndexError"

\* Component (a, c) of the gradient block labelled lab
SSRGradientEntry(l, lab, a, c) == FindSSRGradient(l, lab)[1][3 * (a - 1) + c]
GradientEntry(l, lab, a, c) == FindGradient(l, lab)[1][3 * (a - 1) + c]

\* C7: after a successful extract_BO with calc_force_only false: with
\* coupling enabled every state ist holds the negated ' ist+1 st state (SSR)'
\* block; with coupling disabled the target state holds the negated
\* ' bo_list[0]+1 state (...)' block, every other force is zero and the
\* NAC array is as it was before the call.
C7_Forces ==
    (Extracted /\ ~call.calc_force_only) =>
        IF CouplingOn
        THEN \A ist \in States(molecule.nst), a \in Atoms, c \in Comps :
                molecule.force[ist][a][c] = 0 - SSRGradientEntry(files.log, ist + 1, a, c)
        ELSE /\ \A ist \in States(molecule.nst), a \in Atoms, c \in Comps :
                    molecule.force[ist][a][c] =
                        IF ist = call.bo0
                        THEN 0 - GradientEntry(files.log, call.bo0 + 1, a, c)
                        ELSE 0
             /\ molecule.nac = call.before.nac

\* C7 witness: three states, coupling disabled, target state 1, over a
\* molecule that held earlier forces and NAC numbers
C7_Witness ==
    /\ Extracted /\ ~call.calc_force_only /\ ~CouplingOn
    /\ molecule.nst = 3
    /\ call.bo0 = 1
    /\ call.before.force[0] # Zeros
    /\ call.before.nac[0][1] # Zeros
    /\ molecule.force[1] # Zeros
    /\ molecule.force[0] = Zeros

\* C11: extract_BO with calc_force_only true leaves every energy and the
\* whole NAC array as they were (whether it returns or raises); when it
\* returns, with coupling enabled every state holds the negated
\* ' ist+1 st state (SSR)' block, and with coupling disabled the target
\* state holds the negated ' bo_list[0]+1 state (...)' block while every
\* other state keeps the force it had before the call.
C11_ForceOnly ==
    (ExtractRan /\ call.calc_force_only) =>
        /\ molecule.energy = call.before.energy
        /\ molecule.nac = call.before.nac
        /\ Extracted =>
            \A ist \in States(molecule.nst), a \in Atoms, c \in Comps :
                molecule.force[ist][a][c] =
                    IF CouplingOn
                    THEN 0 - SSRGradientEntry(files.log, ist + 1, a, c)
                    ELSE IF ist = call.bo0
                    THEN 0 - GradientEntry(files.log, call.bo0 + 1, a, c)
                    ELSE call.before.force[ist][a][c]

\* C11 witness: a force-only call for target state 1 of three, coupling
\* disabled, over a molecule that held earlier energies, forces and NAC
\* numbers: state 1 has a new force, state 0 keeps its earlier non-zero one
C11_Witness ==
    /\ Extracted /\ call.calc_force_only /\ ~CouplingOn
    /\ molecule.nst = 3
    /\ call.bo0 = 1
    /\ call.before.energy[0] # 0
    /\ call.before.nac[0][1] # Zeros
    /\ call.before.force[0] # Zeros
    /\ molecule.force[0] = call.before.force[0]
    /\ molecule.force[1] # call.before.force[1]

----------------------------------------------------------------------------
(* Properties of the QChem and Turbomole constructors, checked under SpecCalc *)

\* C8 as stated: QChem with a version other than 5.2 fails with a
\* ValueError carrying 'Other version not implemented'; with version 5.2
\* it succeeds.
C8_Original ==
    qchem.built =>
        IF qchem.version = PyFloat("5.2")
        THEN qchem.err = "none"
        ELSE qchem.err = "ValueError: Other version not implemented!"

\* C9: Turbomole construction succeeds exactly for the string "6.4"; any
\* other string raises ValueError and any non-string raises TypeError.
C9_TurbomoleVersion ==
    turbomole.built =>
        /\ turbomole.err = "none"
            <=> (turbomole.version.type = "str" /\ turbomole.version.val = "6.4")
        /\ (turbomole.version.type = "str" /\ turbomole.version.val # "6.4")
            => turbomole.err = "ValueError: Other versions not implemented!"
        /\ turbomole.version.type # "str"
            => turbomole.err = "TypeError: Type of version must be string!"

\* C9 witness: the number 6.4 was given and TypeError was raised
C9_Witness ==
    /\ turbomole.built
    /\ turbomole.version = PyFloat("6.4")
    /\ turbomole.err = "TypeError: Type of version must be string!"

SmpBinPath(qm_path) == PathJoin(qm_path, "bin/em64t-unknown-linux-gnu_smp/")
SerialBinPath(qm_path) == PathJoin(qm_path, "bin/em64t-unknown-linux-gnu/")

\* C10 as stated: the environment agrees with the most recently
\* constructed instance: PARA_ARCH = "SMP" and PARNODES = nthreads are
\* present exactly when it has nthreads # 1 (and uses the '_smp' path), and
\* absent when it has nthreads = 1 (and uses the serial path).
C10_Original ==
    turbomole.built =>
        IF turbomole.nthreads # 1
        THEN /\ environ["PARA_ARCH"] = PyStr("SMP")
             /\ environ["PARNODES"] = FmtInt(turbomole.nthreads)
             /\ turbomole.qm_bin_path = SmpBinPath(turbomole.qm_path)
        ELSE /\ environ["PARA_ARCH"] = Absent
             /\ environ["PARNODES"] = Absent
             /\ turbomole.qm_bin_path = SerialBinPath(turbomole.qm_path)

\* C10 amended: a construction with nthreads # 1 sets PARA_ARCH = "SMP"
\* and PARNODES = nthreads and uses the '_smp' path; a construction with
\* nthreads = 1 uses the serial path and leaves PARA_ARCH and PARNODES as
\* they were (it never removes them).
C10_EnvironSticky ==
    [][turbomole' # turbomole =>
        IF turbomole'.nthreads # 1
        THEN /\ environ'["PARA_ARCH"] = PyStr("SMP")
             /\ environ'["PARNODES"] = FmtInt(turbomole'.nthreads)
             /\ turbomole'.qm_bin_path = SmpBinPath(turbomole'.qm_path)
        ELSE /\ environ'["PARA_ARCH"] = environ["PARA_ARCH"]
             /\ environ'["PARNODES"] = environ["PARNODES"]
             /\ turbomole'.qm_bin_path = SerialBinPath(turbomole'.qm_path)]_vars

\* C10 witness: the most recent instance is serial and failed the version
\* check, while the variables of an earlier 3-thread instance are still set
C10_Witness ==
    /\ turbomole.built
    /\ turbomole.nthreads = 1
    /\ turbomole.err # "none"
    /\ environ["PARA_ARCH"] = PyStr("SMP")
    /\ environ["PARNODES"] = FmtInt(3)

====
